---- MODULE Spec2Model ----
(***************************************************************************)
(* Model of the Pfeiffer TPG36x protocol engine                            *)
(* (bin/PfeifferCommunication.py) and of the Tango device class that       *)
(* calls it (bin/PfeifferTPG36x.py).                                       *)
(*                                                                         *)
(* A byte is a one-character string, or one of the names ENQ, ACK, NAK,    *)
(* CR, LF for the control bytes.  A Python str or bytes object is a record *)
(* [type, val] whose val is the sequence of its bytes.                     *)
(***************************************************************************)
EXTENDS Integers, Sequences, FiniteSets, TLC

VARIABLES
    devState,   \* Tango state of the device: UNKNOWN, INIT, ON, OFF
    session,    \* "new", "running", "exited" (sys.exit or server shutdown)
    sock,       \* self.interface: "none", "unconnected", "open", "closed"
    rxbuf,      \* bytes waiting in the socket's receive buffer
    net,        \* bytes the controller has sent that have not arrived yet
    script,     \* frames the controller answers the next client writes with
    monitor,    \* owner of the Tango device monitor, 0 when free
    th,         \* per client thread: the callback it runs and its send call
    last,       \* what the last callback did, once it has finished
    ndel,       \* number of times __del__ ran on the interface
    delraised   \* TRUE when some __del__ raised

vars == <<devState, session, sock, rxbuf, net, script, monitor, th, last,
          ndel, delraised>>

-----------------------------------------------------------------------------
(* Bounds of the model *)

MaxBacklog == 3      \* unread bytes of earlier replies when a request is served
MaxTeardowns == 2    \* __del__ calls per session

Threads == {1, 2}    \* client threads of the device server

-----------------------------------------------------------------------------
(* Module constants of PfeifferCommunication.py *)

ETX == "ETX"
CR == "CR"
LF == "LF"
ENQ == "ENQ"
ACK == "ACK"
NAK == "NAK"
RESP_END == <<CR, LF>>

BUFSIZE == 1024      \* recv(1024)
MaxReads == 3        \* receive() calls one send can make: lines 118, 85, 89

(* Names bound at module level in PfeifferCommunication.py. *)
ModuleNames ==
    {"sys", "socket", "sleep", "ETX", "CR", "LF", "ENQ", "ACK", "NAK",
     "RESP_END", "CommandError", "CommandSyntaxError",
     "InadmissibleParameterError", "Error", "NoHardwareError",
     "ControllerError", "UnknownErrorWord", "PfeifferEthernetInterface",
     "PfeifferSerialInterface"}

(* Python builtins that the module uses as exception classes. *)
Builtins == {"Exception", "NotImplementedError"}

-----------------------------------------------------------------------------
(* Python values *)

StrVal(s) == [type |-> "str", val |-> s, num |-> 0]
IntVal(n) == [type |-> "int", val |-> <<>>, num |-> n]

(* x.encode() *)
Encode(x) == [type |-> "bytes", val |-> x.val, num |-> 0]

Digits == <<"0", "1", "2", "3", "4", "5", "6", "7", "8", "9">>

(* str(arg) for the argument kinds the callers pass: str and small int *)
PyStr(arg) ==
    IF arg.type = "int" THEN <<Digits[arg.num + 1]>> ELSE arg.val

Range(s) == {s[i] : i \in 1..Len(s)}

Min(a, b) == IF a < b THEN a ELSE b

Take(s, n) == SubSeq(s, 1, Min(n, Len(s)))
Drop(s, n) == SubSeq(s, Min(n, Len(s)) + 1, Len(s))

FirstIndex(s, b) == CHOOSE i \in 1..Len(s) : s[i] = b /\ \A j \in 1..(i-1) : s[j] # b

(* s.split(sep) for a one-byte separator *)
RECURSIVE Split(_, _)
Split(s, sep) ==
    IF sep \notin Range(s) THEN <<s>>
    ELSE LET i == FirstIndex(s, sep)
         IN <<SubSeq(s, 1, i - 1)>> \o Split(SubSeq(s, i + 1, Len(s)), sep)

(* name lookup in a function body: a local, a module global or a builtin *)
Lookup(name, locals) ==
    IF name \in locals \cup ModuleNames \cup Builtins THEN name ELSE "NameError"

-----------------------------------------------------------------------------
(* Outcomes of a call: nothing yet, a returned value or a raised exception *)

NoOut == [kind |-> "none", exc |-> "", value |-> <<>>, cmdstr |-> <<>>, origin |-> ""]

Return(v) == [kind |-> "return", exc |-> "", value |-> v, cmdstr |-> <<>>, origin |-> ""]

(* raise exc, from the function origin *)
Raise(exc, origin) ==
    [kind |-> "raise", exc |-> exc, value |-> <<>>, cmdstr |-> <<>>, origin |-> origin]

(* raise exc(commandstring) : a CommandError carries the command string *)
RaiseCmd(exc, c, origin) ==
    [kind |-> "raise", exc |-> exc, value |-> <<>>, cmdstr |-> c, origin |-> origin]

-----------------------------------------------------------------------------
(* PfeifferEthernetInterface *)

(* send, lines 105-112: the command string of mnemonic and argv *)
RECURSIVE JoinArgs(_)
JoinArgs(argv) ==
    IF argv = <<>> THEN <<>>
    ELSE <<",">> \o PyStr(Head(argv)) \o JoinArgs(Tail(argv))

(* CommandString with a separator after the last argument as well *)
CommandStringTrailingSeparator(mnemonic, argv) ==
    mnemonic \o JoinArgs(argv) \o <<",", CR>>

CommandString(mnemonic, argv) == mnemonic \o JoinArgs(argv) \o <<CR>>

(* Fields without the split on commas *)
FieldsUnsplit(data) == <<Split(data, CR)[1]>>

(* receive, lines 70-72: the fields of the data one recv returned, which *)
(* holds a CR: what precedes the first CR, split on commas               *)
Fields(data) == Split(Split(data, CR)[1], ",")

(* receive, lines 70-74, on the bytes recv returned *)
ReceiveResult(data) ==
    IF CR \in Range(data)
    THEN Return(Fields(data))
    ELSE Raise(Lookup("SocketError", {"self", "data"}), "receive")

(* _get_error, lines 90-99: the exception raised for an error word *)
ErrorWordRaise(error_word) ==
    LET locals == {"self", "response", "error_word"}
    IN  IF error_word = <<"0", "0", "0", "1">>
        THEN IF Lookup("commandstring", locals) = "NameError"
             THEN Raise("NameError", "_get_error")
             ELSE RaiseCmd("CommandSyntaxError", <<>>, "_get_error")
        ELSE IF error_word = <<"0", "0", "1", "0">>
        THEN IF Lookup("commandstring", locals) = "NameError"
             THEN Raise("NameError", "_get_error")
             ELSE RaiseCmd("InadmissibleParameterError", <<>>, "_get_error")
        ELSE IF error_word = <<"0", "1", "0", "0">>
        THEN Raise("NoHardwareError", "_get_error")
        ELSE IF error_word = <<"1", "0", "0", "0">>
        THEN Raise("ControllerError", "_get_error")
        ELSE Raise("UnknownErrorWord", "_get_error")

(* What send and its helpers do once receive() has returned fields at the *)
(* position pc: write something and read again, return, or raise.         *)
Write(data, next, origin) ==
    [op |-> "write", data |-> data, next |-> next, out |-> NoOut, origin |-> origin]

Finish(out) ==
    [op |-> "finish", data |-> StrVal(<<>>), next |-> "done", out |-> out, origin |-> ""]

(* AfterReceive with NAK handled like ACK: the data is enquired and returned *)
AfterReceiveNakAsAck(pc, fields) ==
    CASE pc = "send_ack" ->
            IF fields[1] \in {<<ACK>>, <<NAK>>}
            THEN Write(Encode(StrVal(<<ENQ>>)), "get_data", "_enq")
            ELSE Finish(Raise("Exception", "send"))
      [] pc \in {"get_data", "err_ack", "err_word"} -> Finish(Return(fields))

(* AfterReceive with every reply that is not NAK taken as an acknowledgement *)
AfterReceiveLenient(pc, fields) ==
    CASE pc = "send_ack" ->
            IF fields[1] = <<NAK>>
            THEN Write(StrVal(<<"E", "R", "R">>), "err_ack", "_get_error")
            ELSE Write(Encode(StrVal(<<ENQ>>)), "get_data", "_enq")
      [] pc \in {"get_data", "err_ack", "err_word"} -> Finish(Return(fields))

(* AfterReceive with the error word enquired straight after the NAK *)
AfterReceiveEnquiringAfterNak(pc, fields) ==
    CASE pc = "send_ack" ->
            IF fields[1] = <<ACK>>
            THEN Write(Encode(StrVal(<<ENQ>>)), "get_data", "_enq")
            ELSE IF fields[1] = <<NAK>>
            THEN Write(Encode(StrVal(<<ENQ>>)), "err_word", "_enq")
            ELSE Finish(Raise("Exception", "send"))
      [] pc = "get_data" -> Finish(Return(fields))
      [] pc = "err_ack" -> Finish(Raise("Exception", "_get_error"))
      [] pc = "err_word" -> Finish(ErrorWordRaise(fields[1]))

AfterReceive(pc, fields) ==
    CASE pc = "send_ack" ->
            \* send, lines 118-124
            IF fields[1] = <<ACK>>
            THEN Write(Encode(StrVal(<<ENQ>>)), "get_data", "_enq")
            ELSE IF fields[1] = <<NAK>>
            THEN Write(StrVal(<<"E", "R", "R">>), "err_ack", "_get_error")
            ELSE Finish(Raise("Exception", "send"))
      [] pc = "get_data" ->
            \* _get_data, line 81, returned by send, line 120
            Finish(Return(fields))
      [] pc = "err_ack" ->
            \* _get_error, lines 85-88 and 100-101
            IF fields[1] = <<ACK>>
            THEN Write(Encode(StrVal(<<ENQ>>)), "err_word", "_enq")
            ELSE Finish(Raise("Exception", "_get_error"))
      [] pc = "err_word" ->
            \* _get_error, lines 89-99
            Finish(ErrorWordRaise(fields[1]))

(* socket.send(data): the exception it raises, "" when the bytes are sent *)
SockSendError(data) ==
    IF data.type # "bytes" THEN "TypeError"
    ELSE IF sock # "open" THEN "OSError"
    ELSE ""

-----------------------------------------------------------------------------
(* The controller and the network *)

(* a response frame: the payload and the terminator CR LF *)
Frame(payload) == payload \o RESP_END

(* what the controller may answer one client write with *)
ReplyFrames ==
    {Frame(<<ACK>>), Frame(<<NAK>>), Frame(<<"0", ",", "7">>),
     Frame(<<"0", "0", "0", "1">>)}

RECURSIVE SeqsUpTo(_, _)
SeqsUpTo(S, n) ==
    IF n = 0 THEN {<<>>}
    ELSE LET shorter == SeqsUpTo(S, n - 1)
         IN shorter \cup {Append(q, x) : q \in shorter, x \in S}

(* the controller's answers to the writes of one send call, in order; it *)
(* stays silent once they are used up                                    *)
Scripts == SeqsUpTo(ReplyFrames, MaxReads)

-----------------------------------------------------------------------------
(* PfeifferTPG36x: the callbacks that call send *)

number_of_channels == 2

Channels == 0..(number_of_channels - 1)

Callbacks == {"read_pressure", "read_status", "EthernetParameters"}

(* self.channels, line 310: the name of channel n *)
ChannelName(n) == <<"C", "H", Digits[n + 2]>>

(* PRESSURE_UNITS, lines 60-66: the value of key k is at position k + 1 *)
PRESSURE_UNITS == <<"mbar", "Torr", "Pa", "Micron", "hPa", "Volt">>

(* the units a client asks the PressureUnit attribute to be set to *)
Units == {"mbar", "Volt", "bar"}

(* the keys the loop of lines 283-284 finds for the unit *)
UnitKeys(unit) == {k \in 0..(Len(PRESSURE_UNITS) - 1) : PRESSURE_UNITS[k + 1] = unit}

(* UnitKey with the keys counted from 1 *)
UnitKeyFromOne(unit) ==
    CHOOSE k \in 1..Len(PRESSURE_UNITS) : PRESSURE_UNITS[k] = unit

(* the key send is called with: the first one of the dict with that value *)
UnitKey(unit) ==
    CHOOSE k \in UnitKeys(unit) : \A j \in UnitKeys(unit) : k <= j

(* the mnemonic a callback sends, lines 79, 104, 149 *)
Mnemonic(cb, channel) ==
    IF cb \in {"read_pressure", "read_status"}
    THEN <<"P", "R", Digits[channel + 2]>>
    ELSE <<"E", "T", "H">>

(* the arguments a callback passes to send after the mnemonic *)
Argv(cb, channel) == <<>>

IdleThread ==
    [pc |-> "idle", cb |-> "", channel |-> 0, unit |-> "",
     mnemonic |-> <<>>, argv |-> <<>>,
     cmd |-> <<>>, plan |-> <<>>, first |-> <<>>, nreads |-> 0, nframes |-> 0,
     lastdata |-> <<>>, writes |-> <<>>, out |-> NoOut]

NoLast ==
    [cb |-> "", exc |-> "", response |-> <<>>, cbexc |-> "", attr |-> <<>>,
     value |-> <<>>, quality |-> ""]

ReadPcs == {"send_ack", "get_data", "err_ack", "err_word"}

(* int(s) and float(s) skip surrounding whitespace *)
Whitespace == {CR, LF, " "}

RECURSIVE LStrip(_)
LStrip(s) ==
    IF s # <<>> /\ Head(s) \in Whitespace THEN LStrip(Tail(s)) ELSE s

RECURSIVE RStrip(_)
RStrip(s) ==
    IF s # <<>> /\ s[Len(s)] \in Whitespace
    THEN RStrip(SubSeq(s, 1, Len(s) - 1)) ELSE s

Strip(s) == RStrip(LStrip(s))

IsNumber(s) == Strip(s) # <<>> /\ Range(Strip(s)) \subseteq Range(Digits)

DigitValue(d) == (CHOOSE i \in 1..10 : Digits[i] = d) - 1

RECURSIVE NumberOf(_)
NumberOf(ds) ==
    IF ds = <<>> THEN 0
    ELSE 10 * NumberOf(SubSeq(ds, 1, Len(ds) - 1)) + DigitValue(ds[Len(ds)])

(* MEASUREMENT_STATUS, lines 32-40 *)
MEASUREMENT_STATUS ==
    <<"Measurement data okay", "Underrange", "Overrange", "Sensor error",
      "Sensor off", "No sensor", "Identification error">>

(* what a callback does with the outcome of its send call: the exception *)
(* it lets through, or the attribute it sets and the value it returns    *)
Done(cb, out, cbexc, attr, value, quality) ==
    [cb |-> cb, exc |-> out.exc, response |-> out.value, cbexc |-> cbexc,
     attr |-> attr, value |-> value, quality |-> quality]

Failed(cb, out, cbexc) == Done(cb, out, cbexc, <<>>, <<>>, "")

(* names bound at module level in PfeifferTPG36x.py *)
DeviceModuleNames ==
    {"sys", "time", "sleep", "partial", "ConfigParser", "Attr", "AttrQuality",
     "AttrWriteType", "DispLevel", "DevState", "DevFloat", "DevString",
     "Device", "attribute", "command", "device_property", "DeviceMeta", "run",
     "PfeifferEthernetInterface",
     "MEASUREMENT_STATUS", "GAUGE_IDS", "PRESSURE_UNITS", "PfeifferTPG36x",
     "PfeifferTPG361", "PfeifferTPG362", "PfeifferTPG366"}

(* the exception of "return name" in a callback, "" when name is bound *)
ReturnName(name, locals) ==
    IF name \in locals \cup DeviceModuleNames THEN "" ELSE "NameError"

(* _read_pressure with every status but "Sensor error" taken as valid *)
ReadPressureEndLenient(channel, out) ==
    LET response == out.value
        cb == "read_pressure"
        attr == <<"Pressure">> \o ChannelName(channel)
        locals == {"self", "channel", "attr", "mnemonic", "response", "status",
                   "pressure", "quality"}
    IN  IF out.kind = "raise" THEN Failed(cb, out, out.exc)
        ELSE IF ~IsNumber(response[1]) THEN Failed(cb, out, "ValueError")
        ELSE IF NumberOf(Strip(response[1])) # 3
        THEN IF Len(response) < 2 THEN Failed(cb, out, "IndexError")
             ELSE IF ~IsNumber(response[2]) THEN Failed(cb, out, "ValueError")
             ELSE Done(cb, out, ReturnName("temperature", locals), attr,
                       <<Strip(response[2])>>, "ATTR_VALID")
        ELSE Done(cb, out, ReturnName("temperature", locals), attr,
                  <<<<"-1.0">>>>, "ATTR_INVALID")

(* _read_pressure, lines 81-96: the attribute is set at line 95, and *)
(* line 96 returns a name that is bound nowhere                       *)
ReadPressureEnd(channel, out) ==
    LET response == out.value
        cb == "read_pressure"
        attr == <<"Pressure">> \o ChannelName(channel)
        locals == {"self", "channel", "attr", "mnemonic", "response", "status",
                   "pressure", "quality"}
    IN  IF out.kind = "raise" THEN Failed(cb, out, out.exc)
        ELSE IF ~IsNumber(response[1]) THEN Failed(cb, out, "ValueError")
        ELSE IF NumberOf(Strip(response[1])) = 0
        THEN IF Len(response) < 2 THEN Failed(cb, out, "IndexError")
             ELSE IF ~IsNumber(response[2]) THEN Failed(cb, out, "ValueError")
             ELSE Done(cb, out, ReturnName("temperature", locals), attr,
                       <<Strip(response[2])>>, "ATTR_VALID")
        ELSE Done(cb, out, ReturnName("temperature", locals), attr,
                  <<<<"-1.0">>>>, "ATTR_INVALID")

(* _read_status, lines 106-110 *)
ReadStatusEnd(channel, out) ==
    LET response == out.value
        cb == "read_status"
    IN  IF out.kind = "raise" THEN Failed(cb, out, out.exc)
        ELSE IF ~IsNumber(response[1]) THEN Failed(cb, out, "ValueError")
        ELSE IF NumberOf(Strip(response[1])) >= Len(MEASUREMENT_STATUS)
        THEN Failed(cb, out, "KeyError")
        ELSE Done(cb, out, "", <<"Status">> \o ChannelName(channel),
                  <<<<MEASUREMENT_STATUS[NumberOf(Strip(response[1])) + 1]>>>>,
                  "ATTR_VALID")

(* EthernetParameters, lines 150-160 *)
EthernetParametersEnd(out) ==
    LET response == out.value
        cb == "EthernetParameters"
        method == IF response[1] = <<"0">> THEN <<"Static">> ELSE <<"DHCP">>
    IN  IF out.kind = "raise" THEN Failed(cb, out, out.exc)
        ELSE IF Len(response) < 4 THEN Failed(cb, out, "IndexError")
        ELSE Done(cb, out, "", <<>>,
                  <<method, <<"address:\t">> \o response[2],
                    <<"netmask:\t">> \o response[3],
                    <<"gateway:\t">> \o response[4]>>, "")

(* PressureUnit.write, lines 285-291: after send has returned or raised, *)
(* or after the loop has ended without a call of send                   *)
PressureUnitWriteEnd(out) ==
    LET cb == "write_PressureUnit"
    IN  IF out.kind = "raise" THEN Failed(cb, out, out.exc)
        ELSE IF out.kind = "none"
        THEN Done(cb, out, "", <<>>, << <<"error_stream">> >>, "")
        ELSE Done(cb, out, "", <<>>, <<>>, "")

CallbackResult(cb, channel, out) ==
    CASE cb = "read_pressure" -> ReadPressureEnd(channel, out)
      [] cb = "read_status" -> ReadStatusEnd(channel, out)
      [] cb = "EthernetParameters" -> EthernetParametersEnd(out)
      [] cb = "write_PressureUnit" -> PressureUnitWriteEnd(out)

-----------------------------------------------------------------------------
(* State machine *)

Init ==
    /\ devState = "UNKNOWN"
    /\ session = "new"
    /\ sock = "none"
    /\ rxbuf = <<>>
    /\ net = <<>>
    /\ script = <<>>
    /\ monitor = 0
    /\ th = [t \in Threads |-> IdleThread]
    /\ last = NoLast
    /\ ndel = 0
    /\ delraised = FALSE

(* init_device, lines 305-318, when PfeifferEthernetInterface(host, port) *)
(* connects                                                               *)
InitDeviceConnected ==
    /\ session = "new"
    /\ devState' = "ON"
    /\ session' = "running"
    /\ sock' = "open"
    /\ UNCHANGED <<rxbuf, net, script, monitor, th, last, ndel, delraised>>

(* InitDeviceFailed without the sys.exit() of line 324: the server goes on *)
InitDeviceFailedNoExit ==
    /\ session = "new"
    /\ devState' = "OFF"
    /\ session' = "running"
    /\ sock' = "unconnected"
    /\ UNCHANGED <<rxbuf, net, script, monitor, th, last, ndel, delraised>>

(* init_device, lines 305-315 and 321-324, when the constructor raises: *)
(* the socket was created at line 62 and is never connected             *)
InitDeviceFailed ==
    /\ session = "new"
    /\ devState' = "OFF"
    /\ session' = "exited"
    /\ sock' = "unconnected"
    /\ UNCHANGED <<rxbuf, net, script, monitor, th, last, ndel, delraised>>

(* MonitorFree with no serialisation of the requests *)
MonitorIgnored == TRUE

(* The device monitor of the Tango server: requests on one device are *)
(* served one at a time (the class sets no other serialisation model) *)
MonitorFree == monitor = 0

(* A client request for an attribute or a command is dispatched to the *)
(* callback, up to its call of send (lines 78-81, 103-106, 148-150)    *)
Invoke(t, cb, channel) ==
    /\ session = "running"
    /\ Len(rxbuf) + Len(net) <= MaxBacklog
    /\ th[t].pc = "idle"
    /\ MonitorFree
    /\ monitor' = t
    /\ last' = NoLast
    /\ th' = [th EXCEPT ![t] =
                [IdleThread EXCEPT !.pc = "call", !.cb = cb, !.channel = channel,
                                   !.mnemonic = Mnemonic(cb, channel),
                                   !.argv = Argv(cb, channel)]]
    /\ UNCHANGED <<devState, session, sock, rxbuf, net, script, ndel, delraised>>

(* A client write of the PressureUnit attribute, lines 277-291, up to the *)
(* call of send; for a unit that is no value of PRESSURE_UNITS the loop   *)
(* ends without a call and the callback logs the error                    *)
WritePressureUnit(t, unit) ==
    /\ session = "running"
    /\ Len(rxbuf) + Len(net) <= MaxBacklog
    /\ th[t].pc = "idle"
    /\ MonitorFree
    /\ monitor' = t
    /\ last' = NoLast
    /\ th' = [th EXCEPT ![t] =
                IF UnitKeys(unit) # {}
                THEN [IdleThread EXCEPT !.pc = "call", !.cb = "write_PressureUnit",
                                        !.unit = unit,
                                        !.mnemonic = <<"U", "N", "I">>,
                                        !.argv = <<IntVal(UnitKey(unit))>>]
                ELSE [IdleThread EXCEPT !.pc = "done", !.cb = "write_PressureUnit",
                                        !.unit = unit,
                                        !.mnemonic = <<"U", "N", "I">>]]
    /\ UNCHANGED <<devState, session, sock, rxbuf, net, script, ndel, delraised>>

(* The thread record after the call has ended with the outcome out *)
Ended(rec, out) == [rec EXCEPT !.pc = "done", !.out = out]

(* self.interface.send(data) by thread t, whose record is rec, with the   *)
(* controller holding the answers sc: the call ends if the socket raises; *)
(* otherwise the bytes go out, the controller answers with its next frame *)
(* and the call goes on to read at the position next                      *)
SockSend(t, rec, data, sc, next, origin) ==
    IF SockSendError(data) # ""
    THEN /\ th' = [th EXCEPT ![t] = Ended(rec, Raise(SockSendError(data), origin))]
         /\ script' = sc
         /\ net' = net
    ELSE /\ th' = [th EXCEPT ![t] =
                     [rec EXCEPT !.pc = next, !.writes = Append(@, data.val)]]
         /\ script' = IF sc = <<>> THEN <<>> ELSE Tail(sc)
         /\ net' = IF sc = <<>> THEN net ELSE net \o Head(sc)

(* send, lines 105-115: build the command string and write it; the *)
(* controller decides how it will answer this exchange             *)
SendCommand(t, sc) ==
    /\ th[t].pc = "call"
    /\ LET commandstring == CommandString(th[t].mnemonic, th[t].argv)
           rec == [th[t] EXCEPT !.cmd = commandstring, !.plan = sc]
       IN SockSend(t, rec, Encode(StrVal(commandstring)), sc, "send_ack", "send")
    /\ UNCHANGED <<devState, session, sock, rxbuf, monitor, last, ndel, delraised>>

(* Bytes the controller sent arrive in the socket's receive buffer *)
Deliver(k) ==
    /\ sock = "open"
    /\ k \in 1..Len(net)
    /\ rxbuf' = rxbuf \o Take(net, k)
    /\ net' = Drop(net, k)
    /\ UNCHANGED <<devState, session, sock, script, monitor, th, last, ndel, delraised>>

(* receive, lines 68-74, when recv returns what the buffer holds, and what *)
(* the caller of receive does with the result                              *)
Receive(t) ==
    /\ th[t].pc \in ReadPcs
    /\ rxbuf # <<>>
    /\ LET data == Take(rxbuf, BUFSIZE)
           r == ReceiveResult(data)
           rec == [th[t] EXCEPT !.nreads = @ + 1, !.lastdata = data,
                                !.nframes = IF r.kind = "return" THEN @ + 1 ELSE @,
                                !.first = IF th[t].pc = "send_ack" /\ r.kind = "return"
                                          THEN r.value[1] ELSE @]
           step == AfterReceive(th[t].pc, r.value)
       IN /\ rxbuf' = Drop(rxbuf, BUFSIZE)
          /\ IF r.kind = "raise"
             THEN /\ th' = [th EXCEPT ![t] = Ended(rec, r)]
                  /\ UNCHANGED <<script, net>>
             ELSE IF step.op = "write"
             THEN SockSend(t, rec, step.data, script, step.next, step.origin)
             ELSE /\ th' = [th EXCEPT ![t] = Ended(rec, step.out)]
                  /\ UNCHANGED <<script, net>>
    /\ UNCHANGED <<devState, session, sock, monitor, last, ndel, delraised>>

(* ReceiveTimeout with the socket closed when the read times out *)
ReceiveTimeoutClosing(t) ==
    /\ th[t].pc \in ReadPcs
    /\ rxbuf = <<>>
    /\ th' = [th EXCEPT ![t] =
                Ended([@ EXCEPT !.nreads = @ + 1, !.lastdata = <<>>],
                      Raise("timeout", "receive"))]
    /\ sock' = "closed"
    /\ UNCHANGED <<devState, session, rxbuf, net, script, monitor, last,
                   ndel, delraised>>

(* ReceiveTimeout with the read repeated once before the call gives up *)
ReceiveTimeoutRetrying(t) ==
    /\ th[t].pc \in ReadPcs
    /\ rxbuf = <<>>
    /\ th' = [th EXCEPT ![t] =
                IF @.nreads = @.nframes
                THEN [@ EXCEPT !.nreads = @ + 1, !.lastdata = <<>>]
                ELSE Ended([@ EXCEPT !.nreads = @ + 1, !.lastdata = <<>>],
                           Raise("timeout", "receive"))]
    /\ UNCHANGED <<devState, session, sock, rxbuf, net, script, monitor, last,
                   ndel, delraised>>

(* receive, line 69, when nothing arrives within the socket timeout set at *)
(* line 63: recv raises socket.timeout, which nothing catches              *)
ReceiveTimeout(t) ==
    /\ th[t].pc \in ReadPcs
    /\ rxbuf = <<>>
    /\ th' = [th EXCEPT ![t] =
                Ended([@ EXCEPT !.nreads = @ + 1, !.lastdata = <<>>],
                      Raise("timeout", "receive"))]
    /\ UNCHANGED <<devState, session, sock, rxbuf, net, script, monitor, last,
                   ndel, delraised>>

(* CallbackEnd with the server stopped when send has raised *)
CallbackEndExiting(t) ==
    /\ th[t].pc = "done"
    /\ last' = CallbackResult(th[t].cb, th[t].channel, th[t].out)
    /\ th' = [th EXCEPT ![t] = IdleThread]
    /\ monitor' = 0
    /\ script' = <<>>
    /\ session' = IF th[t].out.kind = "raise" THEN "exited" ELSE session
    /\ UNCHANGED <<devState, sock, rxbuf, net, ndel, delraised>>

(* The rest of the callback after send has returned or raised, and the *)
(* release of the device monitor                                       *)
CallbackEnd(t) ==
    /\ th[t].pc = "done"
    /\ last' = CallbackResult(th[t].cb, th[t].channel, th[t].out)
    /\ th' = [th EXCEPT ![t] = IdleThread]
    /\ monitor' = 0
    /\ script' = <<>>
    /\ UNCHANGED <<devState, session, sock, rxbuf, net, ndel, delraised>>

(* The device server stops *)
Shutdown ==
    /\ session = "running"
    /\ \A t \in Threads : th[t].pc = "idle"
    /\ session' = "exited"
    /\ UNCHANGED <<devState, sock, rxbuf, net, script, monitor, th, last,
                   ndel, delraised>>

(* SockClose raising when the socket is closed already *)
SockCloseOnce(s) ==
    [state |-> "closed", exc |-> IF s = "closed" THEN "OSError" ELSE ""]

(* socket.close(): the state of the socket afterwards and what it raises *)
SockClose(s) == [state |-> "closed", exc |-> ""]

(* __del__, lines 126-127 *)
Del ==
    /\ session = "exited"
    /\ sock # "none"
    /\ ndel < MaxTeardowns
    /\ sock' = SockClose(sock).state
    /\ delraised' = (delraised \/ SockClose(sock).exc # "")
    /\ ndel' = ndel + 1
    /\ UNCHANGED <<devState, session, rxbuf, net, script, monitor, th, last>>

(* The states of one send call, for the formulas below *)
Finished(t) == th[t].pc = "done"

InFlight(t) == th[t].pc \in ReadPcs

Next ==
    \/ InitDeviceConnected
    \/ InitDeviceFailed
    \/ \E t \in Threads, cb \in Callbacks, channel \in Channels : Invoke(t, cb, channel)
    \/ \E t \in Threads, unit \in Units : WritePressureUnit(t, unit)
    \/ \E t \in Threads, sc \in Scripts : SendCommand(t, sc)
    \/ \E k \in 1..Len(net) : Deliver(k)
    \/ \E t \in Threads : Receive(t)
    \/ \E t \in Threads : ReceiveTimeout(t)
    \/ \E t \in Threads : CallbackEnd(t)
    \/ Shutdown
    \/ Del

Spec == Init /\ [][Next]_vars

-----------------------------------------------------------------------------
(* Building and parsing command frames: send's frame for any mnemonic and *)
(* arguments, read back the way receive reads a frame                     *)

MaxArgs == 2

FrameMnemonics == {<<"P", "R", "1">>, <<"U", "N", "I">>, <<"S", "E", "N">>, <<"A", ",">>}

ArgValues ==
    {StrVal(<<"1">>), StrVal(<<>>), IntVal(2), StrVal(<<"a", ",", "b">>),
     StrVal(<<"1", CR>>)}

ArgLists == SeqsUpTo(ArgValues, MaxArgs)

(* send, lines 105-112, for a caller's mnemonic and arguments *)
FrameBuild(mnemonic, argv) ==
    /\ th[1].pc = "idle"
    /\ th' = [th EXCEPT ![1] =
                [IdleThread EXCEPT !.pc = "built", !.mnemonic = mnemonic, !.argv = argv,
                                   !.cmd = CommandString(mnemonic, argv)]]
    /\ UNCHANGED <<devState, session, sock, rxbuf, net, script, monitor, last,
                   ndel, delraised>>

(* receive, lines 70-74, applied to the frame that was built *)
FrameParse ==
    /\ th[1].pc = "built"
    /\ th' = [th EXCEPT ![1] = [@ EXCEPT !.pc = "parsed", !.out = ReceiveResult(th[1].cmd)]]
    /\ UNCHANGED <<devState, session, sock, rxbuf, net, script, monitor, last,
                   ndel, delraised>>

FrameReset ==
    /\ th[1].pc = "parsed"
    /\ th' = [th EXCEPT ![1] = IdleThread]
    /\ UNCHANGED <<devState, session, sock, rxbuf, net, script, monitor, last,
                   ndel, delraised>>

NextFrame ==
    \/ \E mnemonic \in FrameMnemonics, argv \in ArgLists : FrameBuild(mnemonic, argv)
    \/ FrameParse
    \/ FrameReset

SpecFrame == Init /\ [][NextFrame]_vars

-----------------------------------------------------------------------------
(* Properties *)

RECURSIVE Join(_, _)
Join(fields, sep) ==
    IF Len(fields) = 1 THEN fields[1]
    ELSE fields[1] \o <<sep>> \o Join(Tail(fields), sep)

BeforeCR(data) == SubSeq(data, 1, FirstIndex(data, CR) - 1)

(* the first frame of the call was received and its first field is b *)
FirstField(t, b) == th[t].nframes >= 1 /\ th[t].first = <<b>>

(* C1: when the first frame read after the command has ACK as its first  *)
(* field, send has written the command and exactly one ENQ byte, has     *)
(* read exactly once more, and returns the comma-separated fields of     *)
(* that second frame in order: it returns if and only if the second read *)
(* holds a CR, the fields hold no comma and joined by commas they are    *)
(* the bytes before the CR; the frame "0,7" gives the fields "0", "7".   *)
C1_AckEnquiresAndReturnsData ==
    \A t \in Threads :
        (Finished(t) /\ FirstField(t, ACK)) =>
            /\ th[t].writes = <<th[t].cmd, <<ENQ>>>>
            /\ th[t].nreads = 2
            /\ (th[t].out.kind = "return") <=> (CR \in Range(th[t].lastdata))
            /\ (th[t].out.kind = "return") =>
                  /\ Join(th[t].out.value, ",") = BeforeCR(th[t].lastdata)
                  /\ \A i \in 1..Len(th[t].out.value) :
                        "," \notin Range(th[t].out.value[i])
            /\ (th[t].lastdata = Frame(<<"0", ",", "7">>)) =>
                  th[t].out.value = << <<"0">>, <<"7">> >>

C1_Witness ==
    \E t \in Threads :
        /\ Finished(t) /\ FirstField(t, ACK)
        /\ th[t].mnemonic = <<"P", "R", "1">>
        /\ th[t].out = Return(<< <<"0">>, <<"7">> >>)

(* C2: a send whose first reply has NAK as its first field never returns *)
(* a value: it ends by raising, and the exception comes from the         *)
(* error-retrieval sub-exchange (_get_error or a step it calls), not     *)
(* from send's own statements.                                           *)
C2_NakNeverReturns ==
    \A t \in Threads :
        (Finished(t) /\ FirstField(t, NAK)) =>
            /\ th[t].out.kind = "raise"
            /\ th[t].out.exc # ""
            /\ th[t].out.origin \in {"_get_error", "_enq", "receive"}

C2_Witness ==
    \E t \in Threads :
        Finished(t) /\ FirstField(t, NAK) /\ th[t].out.kind = "raise"

(* the controller answers the command with NAK, the error query with ACK *)
(* and the enquiry with an error word, and the call has read the NAK     *)
NakAckWord(t) ==
    /\ Finished(t)
    /\ FirstField(t, NAK)
    /\ Len(th[t].plan) = 3
    /\ th[t].plan[1] = Frame(<<NAK>>)
    /\ th[t].plan[2] = Frame(<<ACK>>)

ErrorWord(t) == Fields(th[t].plan[3])[1]

(* C3: after NAK, ACK to ERR and the error word "0001" (or "0010"), send *)
(* fails with a syntax-error (inadmissible-parameter) failure carrying   *)
(* the command string of the command passed to send, unless a read of    *)
(* the sub-exchange itself failed.                                       *)
C3_SyntaxErrorCarriesCommand ==
    \A t \in Threads :
        (/\ NakAckWord(t)
         /\ ErrorWord(t) \in {<<"0", "0", "0", "1">>, <<"0", "0", "1", "0">>}
         /\ th[t].out.origin # "receive") =>
            /\ th[t].out.exc = IF ErrorWord(t) = <<"0", "0", "0", "1">>
                               THEN "CommandSyntaxError"
                               ELSE "InadmissibleParameterError"
            /\ th[t].out.cmdstr = th[t].cmd

(* the failure section 4.3 gives for an error word *)
ClaimedFailure(word) ==
    CASE word = <<"0", "0", "0", "1">> -> "CommandSyntaxError"
      [] word = <<"0", "0", "1", "0">> -> "InadmissibleParameterError"
      [] word = <<"0", "1", "0", "0">> -> "NoHardwareError"
      [] word = <<"1", "0", "0", "0">> -> "ControllerError"
      [] OTHER -> "UnknownErrorWord"

(* C4: after NAK, ACK to ERR and an error-word frame, the failure raised *)
(* is the one the table gives for the first field of that frame, and     *)
(* unknown-error-word for every word outside the table, unless a read of *)
(* the sub-exchange itself failed.                                       *)
C4_ErrorWordDecoding ==
    \A t \in Threads :
        (NakAckWord(t) /\ th[t].out.origin # "receive") =>
            /\ th[t].out.kind = "raise"
            /\ th[t].out.exc = ClaimedFailure(ErrorWord(t))

(* C5: when the first field of the first frame is neither ACK nor NAK,  *)
(* send raises the generic Exception from send itself, having written   *)
(* only the command and read only once; no later position of the call   *)
(* is reached with such a first field.                                  *)
C5_UnknownHandshakeByte ==
    \A t \in Threads :
        /\ (Finished(t) /\ th[t].nframes >= 1 /\ th[t].first \notin {<<ACK>>, <<NAK>>}) =>
              /\ th[t].out = Raise("Exception", "send")
              /\ th[t].nreads = 1
              /\ th[t].writes = <<th[t].cmd>>
        /\ (th[t].pc \in ReadPcs \ {"send_ack"}) => th[t].first \in {<<ACK>>, <<NAK>>}

C5_Witness ==
    \E t \in Threads :
        /\ Finished(t) /\ th[t].nframes = 1
        /\ th[t].first = <<"0">>
        /\ th[t].out.exc = "Exception"

(* C6: a read that obtains bytes without a CR makes the call fail with *)
(* the framing failure receive names (SocketError), which is none of   *)
(* the timeout, protocol-violation and controller-error failures.      *)
C6_FramingFailure ==
    \A t \in Threads :
        (Finished(t) /\ th[t].lastdata # <<>> /\ CR \notin Range(th[t].lastdata)) =>
            /\ th[t].out.kind = "raise"
            /\ th[t].out.exc = "SocketError"
            /\ th[t].out.exc \notin {"timeout", "Exception", "ControllerError"}

(* the last read of the call obtained no byte at all *)
ReadNothing(t) ==
    Finished(t) /\ th[t].nreads > th[t].nframes /\ th[t].lastdata = <<>>

(* the last read of the call ended without a CR, and none is on its way *)
(* from the controller either                                           *)
NoTerminator(t) ==
    /\ Finished(t)
    /\ th[t].nreads > th[t].nframes
    /\ CR \notin Range(th[t].lastdata \o rxbuf \o net)

C8_CloseIdempotent ==
    (ndel >= 1) => (sock = "closed" /\ ~delraised)

C8_Witness == ndel >= 2 /\ sock = "closed" /\ ~delraised

(* the mnemonic and the str() of every argument, in order *)
Expected(t) ==
    <<th[t].mnemonic>> \o [i \in 1..Len(th[t].argv) |-> PyStr(th[t].argv[i])]

Clean(s) == "," \notin Range(s) /\ CR \notin Range(s)

RoundTrip ==
    /\ th[1].out.kind = "return"
    /\ th[1].out.value = Expected(1)
    /\ Len(th[1].out.value) = 1 + Len(th[1].argv)

(* C9 as stated: for every mnemonic and argument list, the frame send *)
(* builds, parsed back, gives the mnemonic and the arguments, 1 + the  *)
(* number of arguments fields in all.                                  *)
C9_RoundTripAll == (th[1].pc = "parsed") => RoundTrip

(* C9 amended: the round trip holds when neither the mnemonic nor the *)
(* str() of any argument contains a comma or a CR.                    *)
C9_RoundTripClean ==
    (/\ th[1].pc = "parsed"
     /\ Clean(th[1].mnemonic)
     /\ \A i \in 1..Len(th[1].argv) : Clean(PyStr(th[1].argv[i]))) => RoundTrip

C9_Witness ==
    /\ th[1].pc = "parsed"
    /\ th[1].argv = <<IntVal(2), StrVal(<<>>)>>
    /\ th[1].out.value = << <<"P", "R", "1">>, <<"2">>, <<>> >>

C11_FailedInitEndsSession ==
    /\ (devState = "OFF") =>
          /\ session = "exited"
          /\ sock \in {"unconnected", "closed"}
          /\ \A t \in Threads : th[t] = IdleThread
          /\ last = NoLast
          /\ net = <<>> /\ rxbuf = <<>> /\ script = <<>>
    /\ (devState = "ON") =>
          /\ sock \in {"open", "closed"}
          /\ (sock = "closed") => (session = "exited" /\ ndel >= 1)

C11_Witness ==
    /\ devState = "OFF" /\ session = "exited"
    /\ ndel >= 1 /\ sock = "closed"

(* how many of the writes of a call are the bytes x *)
Count(W, x) == Cardinality({i \in 1..Len(W) : W[i] = x})

ErrToken == <<"E", "R", "R">>

(* a call of send that has got as far as its first write *)
Started(t) == th[t].pc \in ReadPcs \cup {"done"} /\ th[t].cmd # <<>>

(* what C12 says of every state of a call *)
C12_Counts ==
    \A t \in Threads :
        Started(t) =>
            /\ th[t].writes # <<>>
            /\ th[t].writes[1] = th[t].cmd
            /\ Count(th[t].writes, th[t].cmd) = 1
            /\ Count(th[t].writes, ErrToken) <= 1
            /\ Count(th[t].writes, <<ENQ>>) <= 1
            /\ th[t].nreads <= MaxReads
            /\ th[t].nreads <= Len(th[t].writes)
            /\ Len(th[t].writes) <= th[t].nframes + 1
            /\ th[t].nreads <= th[t].nframes + 1
            /\ (th[t].nreads > th[t].nframes) =>
                  (Finished(t) /\ th[t].out.kind = "raise"
                               /\ th[t].out.origin = "receive")
            /\ (Finished(t) /\ th[t].out.exc \in {"TypeError", "OSError"}) =>
                  th[t].nreads = th[t].nframes

(* a call that has ended writes and reads nothing more *)
C12_EndedStays ==
    \A t \in Threads :
        Finished(t) => (th'[t] = th[t] \/ th'[t] = IdleThread)

(* C12: send does not retry. In every call the command frame is the    *)
(* first write and is written once, ERR and ENQ are written at most     *)
(* once each, at most three reads are made, each read follows a write   *)
(* and each later write follows a frame that was read; a read that      *)
(* fails and a write that fails end the call, and a call that has ended *)
(* writes and reads nothing more.                                       *)
C12_NoRetry == []C12_Counts /\ [][C12_EndedStays]_vars

C12_Witness ==
    \E t \in Threads :
        /\ Finished(t) /\ FirstField(t, NAK)
        /\ th[t].out.exc = "TypeError"
        /\ th[t].writes = <<th[t].cmd>> /\ th[t].nreads = 1
        /\ rxbuf # <<>>

(* the call has just written: its last write is not yet followed by a read *)
JustWrote(t) ==
    /\ InFlight(t)
    /\ th[t].writes # <<>>
    /\ th[t].nreads = Len(th[t].writes) - 1

LastWrite(t) == th[t].writes[Len(th[t].writes)]

(* the frame the last read of the call returned has b as its first field *)
LastFrameFirst(t, b) ==
    /\ th[t].nframes = th[t].nreads
    /\ CR \in Range(th[t].lastdata)
    /\ Fields(th[t].lastdata)[1] = <<b>>

(* C13: the first write of a call is the command frame. ERR is written, *)
(* and the write of ERR is attempted, only as the second write of a     *)
(* call whose first frame was read and has NAK as its first field. An   *)
(* ENQ byte is written only as the write that follows the read of a     *)
(* frame whose first field is ACK: never first, never on a NAK.         *)
C13_HandshakeOrdering ==
    \A t \in Threads :
        /\ Started(t) =>
              /\ th[t].writes[1] = th[t].cmd
              /\ th[t].writes[1] \notin {<<ENQ>>, ErrToken}
              /\ (th[t].nframes = 0) => Len(th[t].writes) = 1
        /\ (JustWrote(t) /\ LastWrite(t) = <<ENQ>>) =>
              /\ Len(th[t].writes) >= 2
              /\ LastFrameFirst(t, ACK)
              /\ th[t].pc \in {"get_data", "err_word"}
        /\ (JustWrote(t) /\ LastWrite(t) = ErrToken) =>
              /\ Len(th[t].writes) = 2
              /\ FirstField(t, NAK) /\ LastFrameFirst(t, NAK)
        /\ (Finished(t) /\ th[t].out.origin = "_get_error") =>
              (FirstField(t, NAK) /\ th[t].nframes >= 1)
        /\ (Started(t) /\ <<ENQ>> \in Range(th[t].writes)) =>
              \/ (FirstField(t, ACK) /\ th[t].writes[2] = <<ENQ>>)
              \/ (FirstField(t, NAK) /\ th[t].writes[2] = ErrToken
                                     /\ th[t].writes[3] = <<ENQ>>)

C13_Witness ==
    \E t \in Threads :
        /\ JustWrote(t) /\ LastWrite(t) = <<ENQ>>
        /\ th[t].writes = <<th[t].cmd, <<ENQ>>>>
        /\ th[t].lastdata = Take(Frame(<<ACK>>), 2)

(* the controller answers the command with NAK and the error query with *)
(* a frame whose first field is not ACK, and the call has read the NAK   *)
NakThenNoAck(t) ==
    /\ Finished(t)
    /\ FirstField(t, NAK)
    /\ Len(th[t].plan) >= 2
    /\ th[t].plan[1] = Frame(<<NAK>>)
    /\ Fields(th[t].plan[2])[1] # <<ACK>>

(* C14: after NAK, when the frame that answers ERR does not have ACK as *)
(* its first field, send raises the generic Exception of _get_error,    *)
(* having written the command and ERR, no ENQ, and read twice, unless   *)
(* the read of that frame itself failed.                                *)
C14_ErrNotAcknowledged ==
    \A t \in Threads :
        (NakThenNoAck(t) /\ th[t].out.origin # "receive") =>
            /\ th[t].out = Raise("Exception", "_get_error")
            /\ th[t].writes = <<th[t].cmd, ErrToken>>
            /\ <<ENQ>> \notin Range(th[t].writes)
            /\ th[t].nreads = 2

(* C15: the bytes a call writes. The first write is the command frame,  *)
(* which ends with CR and holds no other CR; every later write is the   *)
(* single byte ENQ or the three bytes E, R, R without terminator; and a *)
(* call that has read a NAK writes those three bytes as its second      *)
(* write.                                                               *)
C15_WireBytes ==
    \A t \in Threads :
        /\ Started(t) =>
              /\ th[t].writes[1] = th[t].cmd
              /\ th[t].cmd[Len(th[t].cmd)] = CR
              /\ Count(th[t].cmd, CR) = 1
              /\ \A i \in 2..Len(th[t].writes) :
                    th[t].writes[i] \in {<<ENQ>>, ErrToken}
        /\ (Finished(t) /\ FirstField(t, NAK)) =>
              /\ Len(th[t].writes) >= 2
              /\ th[t].writes[2] = ErrToken

(* no byte of the terminator CR LF is in the field *)
NoTerminatorByte(field) == CR \notin Range(field) /\ LF \notin Range(field)

(* C16: no field that receive returns holds a CR or an LF: neither the  *)
(* fields of the frame a read has just returned, whose first field the  *)
(* handshake compares, nor the fields of the Response send returns.     *)
C16_TerminatorStripped ==
    \A t \in Threads :
        /\ (th[t].nframes >= 1 /\ th[t].nframes = th[t].nreads) =>
              \A i \in 1..Len(Fields(th[t].lastdata)) :
                  NoTerminatorByte(Fields(th[t].lastdata)[i])
        /\ (Finished(t) /\ th[t].out.kind = "return") =>
              \A i \in 1..Len(th[t].out.value) :
                  NoTerminatorByte(th[t].out.value[i])

ReadCallbacks == {"read_pressure", "read_status"}

(* the last callback was a pressure or status read whose send raised *)
ReadFailed == last.cb \in ReadCallbacks /\ last.exc # ""

(* C17 as stated: when the send of a pressure or status read fails, the *)
(* callback gives the attribute the quality INVALID and ends normally.  *)
C17_FailedReadMarkedInvalid ==
    ReadFailed => (last.quality = "ATTR_INVALID" /\ last.cbexc = "")

(* the state after a failed read: the exception has left the callback, *)
(* which has set no attribute; the device is free and the next read is *)
(* dispatched on the same open connection                              *)
C17_AfterFailure ==
    /\ ReadFailed =>
          /\ last.cbexc = last.exc
          /\ last.attr = <<>> /\ last.quality = "" /\ last.value = <<>>
    /\ (ReadFailed /\ session = "running") =>
          /\ devState = "ON" /\ sock = "open"
          /\ MonitorFree
          /\ \A t \in Threads : th[t].pc = "idle"
          /\ (Len(rxbuf) + Len(net) <= MaxBacklog) =>
                \A cb \in ReadCallbacks, channel \in Channels :
                    ENABLED Invoke(1, cb, channel)

(* the step that ends a callback whose send raised leaves the session *)
(* running and the connection open                                    *)
C17_FailureStep ==
    \A t \in Threads :
        (/\ Finished(t) /\ th[t].out.kind = "raise"
         /\ th[t].cb \in ReadCallbacks /\ th'[t] = IdleThread) =>
            /\ session' = "running" /\ sock' = "open"
            /\ devState' = "ON" /\ monitor' = 0
            /\ last'.cbexc = th[t].out.exc

(* C17 amended: when the send of a pressure or status read fails, the  *)
(* exception leaves the callback unhandled and the attribute is given  *)
(* neither a value nor a quality; the failure does not end the session *)
(* or close the connection, the device monitor is released and later   *)
(* reads are dispatched on the same connection.                        *)
C17_FailedReadPropagates == []C17_AfterFailure /\ [][C17_FailureStep]_vars

C17_Witness ==
    /\ last.cb = "read_pressure" /\ last.exc = "timeout"
    /\ last.cbexc = "timeout" /\ last.quality = ""
    /\ session = "running" /\ net # <<>>

(* the call returned a Response whose fields hold no terminator byte *)
ReturnedClean(t) ==
    /\ Finished(t)
    /\ th[t].out.kind = "return"
    /\ \A i \in 1..Len(th[t].out.value) : NoTerminatorByte(th[t].out.value[i])

(* C18: the Response a call returns is made of the fields of the frame *)
(* the controller sent in answer to the ENQ of that call, the second   *)
(* frame of its answers; stated for the Responses that hold no byte of *)
(* a terminator (those are the matter of C16).                         *)
C18_ReplyCorrespondence ==
    \A t \in Threads :
        ReturnedClean(t) =>
            /\ Len(th[t].plan) >= 2
            /\ th[t].out.value = Fields(th[t].plan[2])

(* the frame of the command UNI,<k> *)
UnitCommand(k) == <<"U", "N", "I", ",", Digits[k + 1], CR>>

(* the thread runs a write of PressureUnit with a unit of PRESSURE_UNITS, *)
(* or with another unit                                                   *)
WritesUnit(rec) == rec.cb = "write_PressureUnit" /\ rec.unit \in Range(PRESSURE_UNITS)

WritesNoUnit(rec) == rec.cb = "write_PressureUnit" /\ rec.unit \notin Range(PRESSURE_UNITS)

C19_Sent ==
    \A t \in Threads :
        /\ WritesUnit(th[t]) =>
              /\ th[t].pc \in {"call", "done"} \cup ReadPcs
              /\ (th[t].pc # "call") =>
                    \E k \in 0..(Len(PRESSURE_UNITS) - 1) :
                        /\ PRESSURE_UNITS[k + 1] = th[t].unit
                        /\ th[t].writes # <<>>
                        /\ th[t].writes[1] = UnitCommand(k)
                        /\ Count(th[t].writes, UnitCommand(k)) = 1
                        /\ \A i \in 2..Len(th[t].writes) :
                              th[t].writes[i] \in {<<ENQ>>, ErrToken}
        /\ WritesNoUnit(th[t]) =>
              /\ th[t].pc = "done"
              /\ th[t].writes = <<>> /\ th[t].nreads = 0
              /\ th[t].plan = <<>> /\ th[t].out = NoOut

(* a step of a write of PressureUnit with a unit outside PRESSURE_UNITS *)
(* leaves the connection as it is                                       *)
C19_NothingWritten ==
    \A t \in Threads :
        (th'[t] # th[t] /\ (WritesNoUnit(th[t]) \/ WritesNoUnit(th'[t]))) =>
            UNCHANGED <<sock, rxbuf, net, script, session, devState>>

(* C19: a write of PressureUnit with a unit that is a value of          *)
(* PRESSURE_UNITS sends the command UNI,<key> with the key of that unit, *)
(* once, and no other command; with any other unit it writes and reads   *)
(* nothing and leaves the connection as it is.                           *)
C19_PressureUnitWrite == []C19_Sent /\ [][C19_NothingWritten]_vars

C19_Witness ==
    \E t \in Threads :
        /\ Finished(t) /\ th[t].cb = "write_PressureUnit"
        /\ th[t].unit = "Volt"
        /\ th[t].writes = << <<"U", "N", "I", ",", "5", CR>>, <<ENQ>> >>
        /\ th[t].out.kind = "return"

(* the field is written with zeros only, whitespace aside: int() gives 0 *)
IsZero(field) == Strip(field) # <<>> /\ Range(Strip(field)) = {"0"}

(* the command frame of the pressure read of channel n *)
PressureCommand(n) == <<"P", "R", Digits[n + 2], CR>>

C20_Quality ==
    /\ \A t \in Threads :
          (th[t].cb = "read_pressure" /\ Started(t)) =>
              /\ th[t].writes[1] = PressureCommand(th[t].channel)
              /\ Count(th[t].writes, PressureCommand(th[t].channel)) = 1
              /\ \A i \in 2..Len(th[t].writes) :
                    th[t].writes[i] \in {<<ENQ>>, ErrToken}
    /\ (last.cb = "read_pressure" /\ last.exc = "" /\ IsNumber(last.response[1])) =>
          /\ (last.quality = "ATTR_VALID") <=>
                /\ IsZero(last.response[1])
                /\ Len(last.response) >= 2
                /\ IsNumber(last.response[2])
          /\ (last.quality = "ATTR_VALID") =>
                last.value = <<Strip(last.response[2])>>
          /\ (~IsZero(last.response[1])) =>
                (last.quality = "ATTR_INVALID" /\ last.value = << <<"-1.0">> >>)
          /\ (last.quality # "") =>
                \E n \in Channels : last.attr = <<"Pressure">> \o ChannelName(n)

(* the attribute set is the one of the channel whose command was sent, *)
(* and the Response judged is the one send returned                    *)
C20_SameChannel ==
    \A t \in Threads :
        (/\ Finished(t) /\ th[t].cb = "read_pressure"
         /\ th[t].out.kind = "return" /\ th'[t] = IdleThread) =>
            /\ last'.response = th[t].out.value
            /\ (last'.quality # "") =>
                  last'.attr = <<"Pressure", "C", "H", Digits[th[t].channel + 2]>>

====
